---------------------------- MODULE Spec2Model ----------------------------
(***************************************************************************)
(* EDMAS base agent: the AgentState record, its Firestore codec            *)
(* (to_firestore_dict / from_firestore_dict) and the identity minted by    *)
(* BaseTradingAgent.__init__  (src/edmasbase_agent.py).                     *)
(*                                                                         *)
(* Python values are modelled as follows.                                  *)
(*   - a str that the codec only passes through (agent_id, status, ...)    *)
(*     is a TLA+ string; a float is an opaque string naming it; an int is  *)
(*     an integer;                                                         *)
(*   - the value held under a timestamp field is a tagged value            *)
(*     [t |-> "datetime", v |-> <a datetime>], [t |-> "str", v |-> <text>],*)
(*     [t |-> "int", v |-> n] or [t |-> "None", v |-> 0], because the code *)
(*     stores both text and datetime objects under the same key;           *)
(*   - a text that is parsed or formatted is a sequence of one-character   *)
(*     strings; a datetime is a record of its seven naive components;      *)
(*   - a dict and a dataclass instance are functions from key (field)      *)
(*     names to values;                                                    *)
(*   - "maybe a value" (an optional reference) is a sequence of length 0   *)
(*     or 1.                                                               *)
(***************************************************************************)
EXTENDS Integers, Sequences, FiniteSets, TLC

VARIABLES
    state,      \* <<s>>: the AgentState instance the caller holds; <<>>: none yet
    data,       \* <<d>>: the dict the caller holds (encoded, or read back from the store)
    last,       \* the last operation: its name, exception, argument and return value
    agents,     \* BaseTradingAgent instances constructed so far, in order
    uuids       \* the values uuid.uuid4() has returned so far

vars == <<state, data, last, agents, uuids>>

-----------------------------------------------------------------------------
(* Text and datetime: datetime.isoformat and datetime.fromisoformat.       *)

Digits == <<"0", "1", "2", "3", "4", "5", "6", "7", "8", "9">>

IsDigit(c) == \E i \in 1..10 : Digits[i] = c

DigitVal(c) == CHOOSE n \in 0..9 : Digits[n + 1] = c

AllDigits(s) == \A i \in 1..Len(s) : IsDigit(s[i])

RECURSIVE Pow10(_)
Pow10(k) == IF k = 0 THEN 1 ELSE 10 * Pow10(k - 1)

\* "%0<w>d" % n
Pad(n, w) == [i \in 1..w |-> Digits[((n \div Pow10(w - i)) % 10) + 1]]

\* int(s) for a text of decimal digits
RECURSIVE ToInt(_)
ToInt(s) ==
    IF Len(s) = 0 THEN 0
    ELSE 10 * ToInt(SubSeq(s, 1, Len(s) - 1)) + DigitVal(s[Len(s)])

\* Python's s[a:b] (0-based, end exclusive, clipped to the text)
Slice(s, a, b) ==
    LET e == IF b < Len(s) THEN b ELSE Len(s)
    IN  IF a >= e THEN <<>> ELSE SubSeq(s, a + 1, e)

IsLeap(y) == (y % 4 = 0) /\ ((y % 100 # 0) \/ (y % 400 = 0))

DaysInMonth(y, m) ==
    IF m = 2 THEN (IF IsLeap(y) THEN 29 ELSE 28)
    ELSE IF m \in {4, 6, 9, 11} THEN 30 ELSE 31

DateTime(y, mo, d, h, mi, s, us) ==
    [year |-> y, month |-> mo, day |-> d, hour |-> h, minute |-> mi,
     second |-> s, microsecond |-> us]

\* the range checks of the datetime constructor
ValidDateTime(dt) ==
    /\ dt.year \in 1..9999
    /\ dt.month \in 1..12
    /\ dt.day \in 1..DaysInMonth(dt.year, dt.month)
    /\ dt.hour \in 0..23
    /\ dt.minute \in 0..59
    /\ dt.second \in 0..59
    /\ dt.microsecond \in 0..999999

\* datetime.__le__ on naive datetimes: lexicographic on the components
DtKey(dt) == <<dt.year, dt.month, dt.day, dt.hour, dt.minute, dt.second, dt.microsecond>>

RECURSIVE SeqLE(_, _)
SeqLE(a, b) ==
    IF Len(a) = 0 THEN TRUE
    ELSE IF a[1] # b[1] THEN a[1] < b[1]
    ELSE SeqLE(Tail(a), Tail(b))

DtLE(a, b) == SeqLE(DtKey(a), DtKey(b))

\* isoformat with a fault: the fraction is never written (as strftime without
\* %f would do).
isoformat_no_fraction(dt) ==
    Pad(dt.year, 4) \o <<"-">> \o Pad(dt.month, 2) \o <<"-">> \o Pad(dt.day, 2)
        \o <<"T">>
        \o Pad(dt.hour, 2) \o <<":">> \o Pad(dt.minute, 2) \o <<":">> \o Pad(dt.second, 2)

\* datetime.isoformat(): YYYY-MM-DDTHH:MM:SS, and .ffffff when microsecond is not 0
isoformat(dt) ==
    Pad(dt.year, 4) \o <<"-">> \o Pad(dt.month, 2) \o <<"-">> \o Pad(dt.day, 2)
        \o <<"T">>
        \o Pad(dt.hour, 2) \o <<":">> \o Pad(dt.minute, 2) \o <<":">> \o Pad(dt.second, 2)
        \o (IF dt.microsecond # 0 THEN <<".">> \o Pad(dt.microsecond, 6) ELSE <<>>)

\* The date part YYYY-MM-DD of an ISO text (the first ten characters).
DateShapeOk(s) ==
    /\ Len(s) >= 10
    /\ AllDigits(Slice(s, 0, 4)) /\ s[5] = "-"
    /\ AllDigits(Slice(s, 5, 7)) /\ s[8] = "-"
    /\ AllDigits(Slice(s, 8, 10))

\* The time part HH[:MM[:SS[.fff[fff]]]] (the text after the separator).
TimeShapeOk(t) ==
    \/ Len(t) = 2 /\ AllDigits(t)
    \/ Len(t) = 5 /\ AllDigits(Slice(t, 0, 2)) /\ t[3] = ":" /\ AllDigits(Slice(t, 3, 5))
    \/ /\ Len(t) \in {8, 12, 15}
       /\ AllDigits(Slice(t, 0, 2)) /\ t[3] = ":"
       /\ AllDigits(Slice(t, 3, 5)) /\ t[6] = ":"
       /\ AllDigits(Slice(t, 6, 8))
       /\ Len(t) > 8 => (t[9] = "." /\ AllDigits(Slice(t, 9, Len(t))))

\* The components a well-shaped text denotes; any single character separates
\* the date from the time, and a missing time is midnight.  The grammar is
\* YYYY-MM-DD[*HH[:MM[:SS[.fff[fff]]]]], the one every Python version from 3.7
\* on accepts for a naive datetime.
ParsedDateTime(s) ==
    LET t    == Slice(s, 11, Len(s))
        frac == Slice(t, 9, Len(t))
    IN  DateTime(ToInt(Slice(s, 0, 4)), ToInt(Slice(s, 5, 7)), ToInt(Slice(s, 8, 10)),
                 ToInt(Slice(t, 0, 2)), ToInt(Slice(t, 3, 5)), ToInt(Slice(t, 6, 8)),
                 IF Len(frac) = 3 THEN 1000 * ToInt(frac) ELSE ToInt(frac))

Accepted(s) ==
    /\ DateShapeOk(s)
    /\ Len(s) # 11
    /\ (Len(s) > 11 => TimeShapeOk(Slice(s, 11, Len(s))))
    /\ ValidDateTime(ParsedDateTime(s))

DateTimeVal(dt) == [t |-> "datetime", v |-> dt]
StrVal(s) == [t |-> "str", v |-> s]
IntVal(n) == [t |-> "int", v |-> n]
NoneVal == [t |-> "None", v |-> 0]

\* fromisoformat with a fault: a value it cannot parse becomes None instead of
\* an exception (a lenient "try: ... except: return None" wrapper).
fromisoformat_lenient(x) ==
    IF x.t = "str" /\ Accepted(x.v)
    THEN [exc |-> "none", val |-> DateTimeVal(ParsedDateTime(x.v))]
    ELSE [exc |-> "none", val |-> NoneVal]

\* datetime.fromisoformat(x): TypeError unless x is a str, ValueError for a
\* text it does not accept, else the datetime.
fromisoformat(x) ==
    IF x.t # "str" THEN [exc |-> "TypeError", val |-> NoneVal]
    ELSE IF ~Accepted(x.v) THEN [exc |-> "ValueError", val |-> NoneVal]
    ELSE [exc |-> "none", val |-> DateTimeVal(ParsedDateTime(x.v))]

-----------------------------------------------------------------------------
(* The AgentState dataclass and its codec.                                 *)

FieldNames ==
    <<"agent_id", "agent_type", "status", "performance_score", "created_at",
      "last_heartbeat", "configuration_hash", "memory_usage_mb", "error_count",
      "success_count">>

Fields == {FieldNames[i] : i \in 1..Len(FieldNames)}

TimestampFields == {"created_at", "last_heartbeat"}

\* the fields declared with a default value, and that value
Defaults == [error_count |-> 0, success_count |-> 0]

RequiredFields == Fields \ DOMAIN Defaults

\* the values the comment on the status field lists
StatusValues == {"ACTIVE", "PAUSED", "EVOLVING", "FAILED"}

\* AgentState(**kwargs): the __init__ the dataclass decorator generates.  It
\* rejects an unknown keyword and a missing field that has no default, fills
\* the defaults, and checks nothing else.
AgentState(kwargs) ==
    IF ~(DOMAIN kwargs \subseteq Fields) \/ ~(RequiredFields \subseteq DOMAIN kwargs)
    THEN [exc |-> "TypeError", ret |-> <<>>]
    ELSE [exc |-> "none",
          ret |-> <<[f \in Fields |->
                        IF f \in DOMAIN kwargs THEN kwargs[f] ELSE Defaults[f]]>>]

\* dataclasses.asdict(self): one key per declared field, values copied
asdict(self) == [f \in Fields |-> self[f]]

\* to_firestore_dict with a fault: the text is stored under new keys and the
\* datetime objects are dropped.
to_firestore_dict_renamed(self) ==
    [k \in (Fields \ TimestampFields) \cup {"created_at_iso", "last_heartbeat_iso"} |->
        IF k = "created_at_iso" THEN StrVal(isoformat(self["created_at"].v))
        ELSE IF k = "last_heartbeat_iso" THEN StrVal(isoformat(self["last_heartbeat"].v))
        ELSE self[k]]

to_firestore_dict(self) ==
    [asdict(self) EXCEPT
        !["created_at"] = StrVal(isoformat(self["created_at"].v)),
        !["last_heartbeat"] = StrVal(isoformat(self["last_heartbeat"].v))]

\* from_firestore_dict(cls, data): the exception raised ("none": it returned),
\* the record returned, and data as the call leaves it: the two assignments
\* write into the caller's dict.
from_firestore_dict(d) ==
    IF "created_at" \notin DOMAIN d
    THEN [exc |-> "KeyError", ret |-> <<>>, data |-> d]
    ELSE
    LET c == fromisoformat(d["created_at"]) IN
    IF c.exc # "none"
    THEN [exc |-> c.exc, ret |-> <<>>, data |-> d]
    ELSE
    LET d1 == [d EXCEPT !["created_at"] = c.val] IN
    IF "last_heartbeat" \notin DOMAIN d1
    THEN [exc |-> "KeyError", ret |-> <<>>, data |-> d1]
    ELSE
    LET h == fromisoformat(d1["last_heartbeat"]) IN
    IF h.exc # "none"
    THEN [exc |-> h.exc, ret |-> <<>>, data |-> d1]
    ELSE
    LET d2 == [d1 EXCEPT !["last_heartbeat"] = h.val]
        r  == AgentState(d2)
    IN  [exc |-> r.exc, ret |-> r.ret, data |-> d2]

-----------------------------------------------------------------------------
(* Inputs.                                                                 *)

T0 == DateTime(2024, 1, 1, 0, 0, 0, 0)
T1 == DateTime(2024, 1, 1, 0, 5, 0, 0)
T2 == DateTime(2024, 2, 29, 23, 59, 59, 250)

AgentIdInputs == {"analyzer_ab12cd34"}
StatusInputs == StatusValues \cup {"RETIRED"}
CreatedInputs == {T0, T1}
HeartbeatInputs == {T0, T1, T2}
ErrorCountInputs == {-1, 0, 1}
SuccessCountInputs == {12}

\* Values a document read back from the store may hold under a timestamp key.
NotADate == <<"n", "o", "t", "-", "a", "-", "d", "a", "t", "e">>
MonthThirteen == isoformat([T0 EXCEPT !.month = 13])
FebruaryThirty == isoformat([T2 EXCEPT !.day = 30])
SpaceSeparated == [isoformat(T1) EXCEPT ![11] = " "]
MinutesOnly == Slice(isoformat(T1), 0, 16)

TimestampTexts == {NotADate, <<>>, MonthThirteen, FebruaryThirty, SpaceSeparated, MinutesOnly}

TimestampInputs == {StrVal(s) : s \in TimestampTexts} \cup {IntVal(1704067200), NoneVal}

NoCall == [op |-> "none", exc |-> "none", arg |-> <<>>, ret |-> <<>>]

-----------------------------------------------------------------------------
(* Operations on records and documents.  The caller does one thing at a    *)
(* time: it builds its record once and assigns to it while it holds no     *)
(* dict; it encodes the record, the dict may pass through the store, it    *)
(* decodes the dict as often as it likes, and lets go of it.  Operations   *)
(* on the record and operations on the dict touch different objects, so    *)
(* this order loses no outcome of either.                                  *)

Init ==
    /\ state = <<>>
    /\ data = <<>>
    /\ last = NoCall
    /\ agents = <<>>
    /\ uuids = {}

\* s = AgentState(...): the caller builds its record; omit names the defaulted
\* fields it leaves out.
Construct(id, st, c, h, e, sc, omit) ==
    LET kwargs == [f \in Fields \ omit |->
                      CASE f = "agent_id" -> id
                        [] f = "agent_type" -> "analyzer"
                        [] f = "status" -> st
                        [] f = "performance_score" -> "0.73"
                        [] f = "created_at" -> DateTimeVal(c)
                        [] f = "last_heartbeat" -> DateTimeVal(h)
                        [] f = "configuration_hash" -> "a1b2c3"
                        [] f = "memory_usage_mb" -> "128.5"
                        [] f = "error_count" -> e
                        [] f = "success_count" -> sc]
        r == AgentState(kwargs)
    IN  /\ state = <<>>
        /\ r.exc = "none"
        /\ state' = r.ret
        /\ UNCHANGED <<data, last, agents, uuids>>

\* s.<f> = v: the dataclass is declared without frozen=True, so the default
\* object.__setattr__ stores the value in the instance.
SetAttr(f, v) ==
    /\ data = <<>>
    /\ state # <<>>
    /\ state' = <<[state[1] EXCEPT ![f] = v]>>
    /\ UNCHANGED <<data, last, agents, uuids>>

\* data = s.to_firestore_dict()
Encode ==
    /\ data = <<>>
    /\ state # <<>>
    /\ data' = <<to_firestore_dict(state[1])>>
    /\ last' = [op |-> "to_firestore_dict", exc |-> "none", arg |-> <<>>, ret |-> <<>>]
    /\ UNCHANGED <<state, agents, uuids>>

\* The document comes back from the store differing from what was written in
\* one key: the key is gone.
StoreDrops(k) ==
    /\ last.op = "to_firestore_dict"
    /\ data # <<>>
    /\ k \in DOMAIN data[1]
    /\ data' = <<[j \in DOMAIN data[1] \ {k} |-> data[1][j]]>>
    /\ last' = [NoCall EXCEPT !.op = "store"]
    /\ UNCHANGED <<state, agents, uuids>>

\* ... or the key holds another value.
StoreRewrites(k, v) ==
    /\ last.op = "to_firestore_dict"
    /\ data # <<>>
    /\ data' = <<[j \in DOMAIN data[1] \cup {k} |-> IF j = k THEN v ELSE data[1][j]]>>
    /\ last' = [NoCall EXCEPT !.op = "store"]
    /\ UNCHANGED <<state, agents, uuids>>

\* AgentState.from_firestore_dict(data)
Decode ==
    /\ data # <<>>
    /\ LET r == from_firestore_dict(data[1])
       IN  /\ data' = <<r.data>>
           /\ last' = [op |-> "from_firestore_dict", exc |-> r.exc, arg |-> data,
                       ret |-> r.ret]
    /\ UNCHANGED <<state, agents, uuids>>

\* The caller lets go of the dict and keeps what the call returned.
Discard ==
    /\ data # <<>>
    /\ data' = <<>>
    /\ last' = [last EXCEPT !.arg = <<>>]
    /\ UNCHANGED <<state, agents, uuids>>

-----------------------------------------------------------------------------
(* BaseTradingAgent.__init__: the identity of an agent.  Line 76 of the    *)
(* file is cut off in the middle of a statement; the model covers the      *)
(* assignment of self.agent_id on line 75.                                 *)

\* agent_type texts
Generic == <<"g", "e", "n", "e", "r", "i", "c">>
Risk == <<"r", "i", "s", "k">>

\* an agent_id a caller supplies
Custom == <<"r", "i", "s", "k", "_", "1">>

\* uuid.uuid4().hex: 32 hexadecimal digits (version digit 4, variant digit 8..b).
HexPrefixA == <<"1", "a", "2", "b", "3", "c", "4", "d">>
HexPrefixB == <<"9", "f", "8", "e", "7", "d", "6", "c">>
HexRestA ==
    <<"5", "e", "6", "f", "4", "a", "1", "b", "8", "c", "2", "d",
      "3", "e", "4", "f", "5", "a", "6", "b", "7", "c", "8", "d">>
HexRestB ==
    <<"0", "0", "0", "0", "4", "1", "1", "1", "9", "2", "2", "2",
      "3", "3", "3", "3", "4", "4", "4", "4", "5", "5", "5", "5">>

UuidHexInputs ==
    {HexPrefixA \o HexRestA, HexPrefixA \o HexRestB,
     HexPrefixB \o HexRestA, HexPrefixB \o HexRestB}

\* the number of hexadecimal digits kept: hex[:8]
IdHexDigits == 8

\* how many agents a run constructs
MaxAgents == 3

\* `agent_id or ...`: None and the empty text are false
Truthy(arg) == arg # <<>> /\ arg[1] # <<>>

\* f"{agent_type}_{uuid.uuid4().hex[:8]}"
MintedId(agent_type, hex) == agent_type \o <<"_">> \o Slice(hex, 0, IdHexDigits)

\* BaseTradingAgent(agent_id=arg, agent_type=agent_type), arg = <<>> for None.
\* uuid4 is called only when arg is false, and never returns a value it has
\* returned before.  minted records which branch of `or` gave the id.
BaseTradingAgent(arg, agent_type) ==
    /\ Len(agents) < MaxAgents
    /\ IF Truthy(arg)
       THEN /\ agents' = Append(agents, [agent_id |-> arg[1], minted |-> FALSE])
            /\ uuids' = uuids
       ELSE \E u \in UuidHexInputs \ uuids :
            /\ agents' = Append(agents, [agent_id |-> MintedId(agent_type, u),
                                         minted |-> TRUE])
            /\ uuids' = uuids \cup {u}
    /\ UNCHANGED <<state, data, last>>

AgentNext ==
    \E arg \in {<<>>, <<<<>>>>, <<Custom>>}, agent_type \in {Generic, Risk} :
        BaseTradingAgent(arg, agent_type)

AgentSpec == Init /\ [][AgentNext]_vars

Next ==
    \/ \E id \in AgentIdInputs, st \in StatusInputs, c \in CreatedInputs,
          h \in HeartbeatInputs, e \in ErrorCountInputs, sc \in SuccessCountInputs,
          omit \in {{}, DOMAIN Defaults} :
            Construct(id, st, c, h, e, sc, omit)
    \/ \E st \in StatusInputs : SetAttr("status", st)
    \/ \E h \in HeartbeatInputs : SetAttr("last_heartbeat", DateTimeVal(h))
    \/ \E e \in ErrorCountInputs : SetAttr("error_count", e)
    \/ Encode
    \/ \E k \in Fields : StoreDrops(k)
    \/ StoreRewrites("status", "RETIRED")
    \/ StoreRewrites("schema_version", 1)
    \/ \E k \in TimestampFields, v \in TimestampInputs : StoreRewrites(k, v)
    \/ Decode
    \/ Discard

Spec == Init /\ [][Next]_vars

-----------------------------------------------------------------------------
(* Properties.                                                             *)

\* the AgentState instances that exist: the caller's and the decoded one
Snapshots == {state[i] : i \in DOMAIN state} \cup {last.ret[i] : i \in DOMAIN last.ret}

\* a valid record: all ten fields set, status one of the four values,
\* created_at <= last_heartbeat
ValidState(s) ==
    /\ DOMAIN s = Fields
    /\ s["status"] \in StatusValues
    /\ s["created_at"].t = "datetime" /\ s["last_heartbeat"].t = "datetime"
    /\ DtLE(s["created_at"].v, s["last_heartbeat"].v)

\* the last call decoded the encoding of the caller's record, a valid one
DecodedOwnEncoding ==
    /\ last.op = "from_firestore_dict"
    /\ state # <<>>
    /\ ValidState(state[1])
    /\ last.arg = <<to_firestore_dict(state[1])>>

\* C1: round-trip law.  Decoding the encoding of a valid record returns a
\* record equal to it in all ten fields.
C1_RoundTrip ==
    DecodedOwnEncoding =>
        /\ last.exc = "none"
        /\ Len(last.ret) = 1
        /\ \A f \in Fields : last.ret[1][f] = state[1][f]

\* a record whose heartbeat has a fraction of a second went round
C1_Witness ==
    /\ DecodedOwnEncoding
    /\ last.ret = state
    /\ state[1]["last_heartbeat"].v.microsecond # 0
    /\ state[1]["created_at"].v.microsecond = 0

\* the caller holds the dict to_firestore_dict has just returned for a valid record
JustEncoded ==
    /\ last.op = "to_firestore_dict"
    /\ state # <<>> /\ ValidState(state[1])
    /\ data # <<>>

\* C2: field completeness.  The keys of the encoding of a valid record are
\* exactly the ten field names.
C2_FieldCompleteness == JustEncoded => DOMAIN data[1] = Fields

C2_Witness ==
    /\ JustEncoded
    /\ DOMAIN data[1] = Fields
    /\ Cardinality(DOMAIN data[1]) = 10
    /\ data[1]["created_at"].t = "str"

\* C3: decoding a document that lacks one of the ten fields fails and returns
\* no record (whatever the failure is called); no missing field is filled
\* with a default.
C3_MissingFieldFails ==
    (/\ last.op = "from_firestore_dict"
     /\ last.arg # <<>>
     /\ ~(Fields \subseteq DOMAIN last.arg[1]))
        => (last.exc # "none" /\ last.ret = <<>>)

\* C4: enum closure.  Decoding a document whose status is not one of the four
\* values fails, and no record from_firestore_dict returns has such a status.
C4_EnumClosure ==
    last.op = "from_firestore_dict" =>
        /\ (/\ last.arg # <<>>
            /\ "status" \in DOMAIN last.arg[1]
            /\ last.arg[1]["status"] \notin StatusValues) => last.exc # "none"
        /\ \A i \in DOMAIN last.ret : last.ret[i]["status"] \in StatusValues

\* what a caller sees of a call of from_firestore_dict
Outcome(r) == <<r.exc, r.ret>>

\* C5: purity of the codec.  to_firestore_dict leaves the record as it was;
\* from_firestore_dict leaves the document as it was, so that decoding it once
\* more gives the same result.
C5_CodecIsPure ==
    [][/\ Encode => state' = state
       /\ Decode => /\ data' = data
                    /\ Outcome(from_firestore_dict(data'[1]))
                           = Outcome(from_firestore_dict(data[1]))]_vars

\* C6: immutability of the record.  Assigning a field of an existing record
\* does not take effect: the record stays as it was.
C6_RecordIsImmutable ==
    [][(\/ \E st \in StatusInputs : SetAttr("status", st)
        \/ \E h \in HeartbeatInputs : SetAttr("last_heartbeat", DateTimeVal(h))
        \/ \E e \in ErrorCountInputs : SetAttr("error_count", e))
            => state' = state]_vars

\* C7: timestamp ordering.  Every record that exists, constructed or decoded,
\* has created_at <= last_heartbeat.
C7_TimestampOrdering ==
    \A s \in Snapshots : DtLE(s["created_at"].v, s["last_heartbeat"].v)

\* ISO-8601 text: the extended format, date and time separated by T
Iso8601(x) ==
    /\ x.t = "str"
    /\ Accepted(x.v)
    /\ Len(x.v) > 10 => x.v[11] = "T"

\* C8 as stated: decoding a document in which a timestamp field is present
\* but is not valid ISO-8601 text fails with MalformedRecordError and returns
\* no record.
C8_BadTimestampMalformed ==
    (/\ last.op = "from_firestore_dict"
     /\ last.arg # <<>>
     /\ \E k \in TimestampFields \cap DOMAIN last.arg[1] : ~Iso8601(last.arg[1][k]))
        => (last.exc = "MalformedRecordError" /\ last.ret = <<>>)

\* the first timestamp field, in the order the code reads them, that
\* fromisoformat does not take
FirstBad(d) ==
    IF fromisoformat(d["created_at"]).exc # "none" THEN d["created_at"]
    ELSE d["last_heartbeat"]

\* C8 amended: decoding a document that holds both timestamp fields, one of
\* which is not text or is text datetime.fromisoformat rejects, raises
\* TypeError (not text) or ValueError (rejected text) and returns no record.
C8_BadTimestampRaises ==
    (/\ last.op = "from_firestore_dict"
     /\ last.arg # <<>>
     /\ TimestampFields \subseteq DOMAIN last.arg[1]
     /\ \E k \in TimestampFields :
            last.arg[1][k].t # "str" \/ ~Accepted(last.arg[1][k].v))
        => /\ last.exc = (IF FirstBad(last.arg[1]).t # "str" THEN "TypeError"
                          ELSE "ValueError")
           /\ last.ret = <<>>

\* a heartbeat that is no date was refused, after created_at was parsed
C8_Witness ==
    /\ last.op = "from_firestore_dict"
    /\ last.arg # <<>>
    /\ TimestampFields \subseteq DOMAIN last.arg[1]
    /\ last.arg[1]["last_heartbeat"] = StrVal(NotADate)
    /\ last.exc = "ValueError"
    /\ last.ret = <<>>

\* C9: uniqueness of agent_id.  Two agents constructed without a supplied
\* agent_id hold different ids.
C9_MintedIdsUnique ==
    \A i, j \in DOMAIN agents :
        (i # j /\ agents[i].minted /\ agents[j].minted)
            => agents[i].agent_id # agents[j].agent_id

\* C10: counter monotonicity.  Counters are never negative, and of two
\* snapshots of one agent_id the one with the later heartbeat has counters at
\* least as large.
C10_CountersMonotone ==
    /\ \A s \in Snapshots : s["error_count"] >= 0 /\ s["success_count"] >= 0
    /\ \A a, b \in Snapshots :
        (/\ a["agent_id"] = b["agent_id"]
         /\ DtLE(a["last_heartbeat"].v, b["last_heartbeat"].v)
         /\ a["last_heartbeat"] # b["last_heartbeat"])
            => (/\ a["error_count"] <= b["error_count"]
                /\ a["success_count"] <= b["success_count"])

=============================================================================
